---- MODULE Spec2Model ----
(***************************************************************************)
(* A model of ord-by-set's OrdBySet<T, Orderer>: a Vec<T> kept sorted by   *)
(* a caller-supplied, possibly weak, ordering, with equal-range and        *)
(* bounded-range queries, removals, and mutable views whose release        *)
(* re-sorts the storage.                                                   *)
(*                                                                         *)
(* Indices and ranges are 0-based and half-open as in the Rust source;     *)
(* storage[i] of the source is storage[i + 1] here.  An Option<X> is a     *)
(* sequence of length at most one: <<>> is None and <<x>> is Some(x).      *)
(***************************************************************************)
EXTENDS Integers, Sequences, FiniteSets, TLC

\* Largest order-relevant key of a stored value.
MaxKey == 2

\* The payloads of a stored value: the part a weak orderer ignores.
Tags == {0, 1}

\* Largest number of stored values the model lets the Vec grow to.
MaxLen == 3

\* The element type T: a record with an order-relevant field k and a payload t.
\* #[derive(PartialEq, Eq)] on it is record equality.
T == [k : 0..MaxKey, t : Tags]

\* The orderers the crate ships or documents: FullOrd (T's own Ord), a closure
\* comparing only a prefix of the value (here: the field k), and EverythingEqual.
Orderers == {"FullOrd", "ByKey", "EverythingEqual"}

\* Ord::cmp on integers.
cmp(x, y) == IF x < y THEN "Less" ELSE IF x > y THEN "Greater" ELSE "Equal"

\* Order::order_of for each orderer.  FullOrd is the derived (lexicographic) Ord
\* of T; ByKey is the closure |l, r| l[..5].cmp(&r[..5]); EverythingEqual is
\* always Equal.
order_of(o, left, right) ==
    CASE o = "FullOrd" ->
            IF left.k # right.k THEN cmp(left.k, right.k) ELSE cmp(left.t, right.t)
      [] o = "ByKey" -> cmp(left.k, right.k)
      [] o = "EverythingEqual" -> "Equal"

\* Ordering::is_lt, is_eq, is_le.
is_lt(c) == c = "Less"

is_eq(c) == c = "Equal"

is_le(c) == c # "Greater"

\* &s[start..end]
Slice(s, start, end) == SubSeq(s, start + 1, end)

\* Vec::insert(index, element)
VecInsert(s, index, x) == Slice(s, 0, index) \o <<x>> \o Slice(s, index, Len(s))

\* Vec::drain(start..end), dropped or collected: what stays in the Vec.
VecDrain(s, start, end) == Slice(s, 0, start) \o Slice(s, end, Len(s))

\* Vec::remove(index): what stays in the Vec.
VecRemove(s, index) == VecDrain(s, index, index + 1)

\* The storage invariant: for i < j, order_of(storage[i], storage[j]) is not Greater.
IsSorted(o, s) ==
    \A i, j \in 1..Len(s) : i < j => order_of(o, s[i], s[j]) # "Greater"

\* The number of occurrences of x in s.
Occurrences(s, x) == Cardinality({i \in 1..Len(s) : s[i] = x})

\* s and r hold the same values with the same multiplicities.
SameMultiset(s, r) ==
    /\ Len(s) = Len(r)
    /\ \A i \in 1..Len(s) : Occurrences(s, s[i]) = Occurrences(r, s[i])

\* [T]::sort_by with the orderer's comparison: a stable sort.  One step places x
\* behind every element of the sorted prefix that is not Greater than x.
SortInsert(o, s, x) ==
    LET n == Cardinality({i \in 1..Len(s) : order_of(o, s[i], x) # "Greater"})
    IN  VecInsert(s, n, x)

RECURSIVE sort_by(_, _)
sort_by(o, s) ==
    IF s = <<>> THEN <<>>
    ELSE SortInsert(o, sort_by(o, Slice(s, 0, Len(s) - 1)), s[Len(s)])

\* A sort_slice that leaves the items as they are.
sort_slice_noop(o, items) == items

\* Order::sort_slice: the default method, items.sort_by(order_of).
sort_slice(o, items) == sort_by(o, items)

\* [T]::partition_point(pred), given the sequence of pred's values on the slice.
\* The result is the index of the first element failing pred when the slice is
\* partitioned (every true before every false); otherwise the standard library
\* leaves the result unspecified, and any index of 0..len may come back.
partition_point(flags) ==
    LET n == Len(flags)
        partitioned == \A i, j \in 1..n : (i < j /\ flags[j]) => flags[i]
    IN  IF partitioned
        THEN {Cardinality({i \in 1..n : flags[i]})}
        ELSE 0..n

\* A binary search that never looks: every item is appended at the end.
binary_search_by_append(cmps) == {[ok |-> FALSE, idx |-> Len(cmps)]}

\* [T]::binary_search_by(f), given the sequence of f's values on the slice:
\* the set of results the standard library may return.  On a slice sorted for f
\* (Less*, Equal*, Greater*) it is Ok(i) for any one i whose element compares
\* Equal ("if there are multiple matches, then any one of the matches could be
\* returned"), and Err(insertion point) when there is none.  On any other slice
\* the result is unspecified: Ok(i) only for an element comparing Equal, or any
\* Err(i).
binary_search_by(cmps) ==
    LET n == Len(cmps)
        rank(c) == CASE c = "Less" -> 0 [] c = "Equal" -> 1 [] c = "Greater" -> 2
        sorted == \A i, j \in 1..n : i < j => rank(cmps[i]) <= rank(cmps[j])
        hits == {[ok |-> TRUE, idx |-> i - 1] : i \in {j \in 1..n : cmps[j] = "Equal"}}
    IN  IF sorted
        THEN IF hits # {}
             THEN hits
             ELSE {[ok |-> FALSE,
                    idx |-> Cardinality({i \in 1..n : cmps[i] = "Less"})]}
        ELSE hits \cup {[ok |-> FALSE, idx |-> i] : i \in 0..n}

\* The comparisons |x| orderer.order_of(x, item) over the slice s.
CmpsOf(o, s, item) == [i \in 1..Len(s) |-> order_of(o, s[i], item)]

\* (end > start).then(|| start..end), with end = start + len.
RangeOf(start, len) ==
    IF start + len > start THEN <<[start |-> start, end |-> start + len]>> ELSE <<>>

\* get_index_range_of with the end of the range one short (an exclusive end
\* taken for an inclusive one).
get_index_range_of_short(o, s, item) ==
    LET starts == partition_point([i \in 1..Len(s) |-> is_lt(order_of(o, s[i], item))])
        lens(start) ==
            partition_point([i \in 1..(Len(s) - start) |->
                                is_eq(order_of(o, s[start + i], item))])
    IN  UNION {{RangeOf(start, len - 1) : len \in lens(start)} : start \in starts}

\* OrdBySet::get_index_range_of: the set of Option<Range<usize>> it may return
\* (one value whenever the two slices it searches are partitioned).
get_index_range_of(o, s, item) ==
    LET starts == partition_point([i \in 1..Len(s) |-> is_lt(order_of(o, s[i], item))])
        lens(start) ==
            partition_point([i \in 1..(Len(s) - start) |->
                                is_eq(order_of(o, s[start + i], item))])
    IN  UNION {{RangeOf(start, len) : len \in lens(start)} : start \in starts}

\* range_to_index_range with the upper bound exclusive (is_lt for is_le).
range_to_index_range_excl(o, s, low, high) ==
    IF ~is_lt(order_of(o, low, high))
    THEN {<<>>}
    ELSE LET starts ==
                 partition_point([i \in 1..Len(s) |-> is_lt(order_of(o, s[i], low))])
             lens(start) ==
                 partition_point([i \in 1..(Len(s) - start) |->
                                     is_lt(order_of(o, s[start + i], high))])
         IN  UNION {{RangeOf(start, len) : len \in lens(start)} : start \in starts}

\* range_to_index_range that only rejects inverted bounds (is_le for is_lt in
\* the early return).
range_to_index_range_le(o, s, low, high) ==
    IF ~is_le(order_of(o, low, high))
    THEN {<<>>}
    ELSE LET starts ==
                 partition_point([i \in 1..Len(s) |-> is_lt(order_of(o, s[i], low))])
             lens(start) ==
                 partition_point([i \in 1..(Len(s) - start) |->
                                     is_le(order_of(o, s[start + i], high))])
         IN  UNION {{RangeOf(start, len) : len \in lens(start)} : start \in starts}

\* OrdBySet::range_to_index_range: the set of Option<Range<usize>> it may return.
range_to_index_range(o, s, low, high) ==
    IF ~is_lt(order_of(o, low, high))
    THEN {<<>>}
    ELSE LET starts ==
                 partition_point([i \in 1..Len(s) |-> is_lt(order_of(o, s[i], low))])
             lens(start) ==
                 partition_point([i \in 1..(Len(s) - start) |->
                                     is_le(order_of(o, s[start + i], high))])
         IN  UNION {{RangeOf(start, len) : len \in lens(start)} : start \in starts}

\* A position that takes the first element of the slice, whatever it is.
position_eq_any(s, range, val) ==
    IF range.start < range.end THEN <<range.start>> ELSE <<>>

\* Iterator::position(|x| x == val) over the slice s[range], plus range.start:
\* the index of the first element exactly equal to val, as an Option<usize>.
position_eq(s, range, val) ==
    LET hits == {i \in range.start..(range.end - 1) : s[i + 1] = val}
    IN  IF hits = {} THEN <<>>
        ELSE <<CHOOSE i \in hits : \A j \in hits : i <= j>>

(***************************************************************************)
(* The state.                                                              *)
(***************************************************************************)
VARIABLES
    storage,   \* OrdBySet::storage, the Vec<T>
    orderer,   \* OrdBySet::orderer
    guard,     \* the live mutable borrow handed out, if any, and its window
    last       \* the last operation: its name, arguments and what it returned

vars == <<storage, orderer, guard, last>>

\* A placeholder for an argument the operation does not take.
NoItem == [k |-> 0, t |-> 0]

NoGuard == [kind |-> "none", start |-> 0, end |-> 0]

\* The record of an operation: op(a, b) ran on storage pre and returned ret
\* (found: the Option or bool it returned was Some or true; idx: the index it
\* found, or the count it returned).
Ran(op, a, b, pre, ret, found, idx) ==
    [op |-> op, a |-> a, b |-> b, pre |-> pre, ret |-> ret, found |-> found, idx |-> idx]

\* OrdBySet::new_with_order(orderer): an empty Vec and the orderer.
Init ==
    /\ orderer \in Orderers
    /\ storage = <<>>
    /\ guard = NoGuard
    /\ last = Ran("new_with_order", NoItem, NoItem, <<>>, <<>>, FALSE, 0)

\* The caller holds no result of an earlier call.
Idle == Ran("idle", NoItem, NoItem, <<>>, <<>>, FALSE, 0)

\* No SliceGuard or &mut T borrows the set, so its methods can be called; the
\* model starts a call once the caller has let go of the previous result.
Free == guard.kind = "none" /\ last \in {Idle, Ran("new_with_order", NoItem, NoItem, <<>>, <<>>, FALSE, 0)}

\* OrdBySet::with_items(items): the storage is replaced by the sorted items.
\* The old storage is discarded, so the states it reaches do not depend on the
\* set it is called on; the model calls it on an empty one.
with_items(items) ==
    /\ Free
    /\ storage = <<>>
    /\ storage' = sort_slice(orderer, items)
    /\ last' = Ran("with_items", NoItem, NoItem, items, <<>>, FALSE, 0)
    /\ UNCHANGED <<orderer, guard>>

\* An insert that pushes the item at the end of the Vec.
insert_push(item) ==
    /\ Free
    /\ Len(storage) < MaxLen
    /\ storage' = Append(storage, item)
    /\ last' = Ran("insert", item, NoItem, storage, <<>>, FALSE, Len(storage))
    /\ UNCHANGED <<orderer, guard>>

\* OrdBySet::insert(item)
insert(item) ==
    /\ Free
    /\ Len(storage) < MaxLen
    /\ \E r \in binary_search_by(CmpsOf(orderer, storage, item)) :
          /\ storage' = VecInsert(storage, r.idx, item)
          /\ last' = Ran("insert", item, NoItem, storage, <<>>, r.ok, r.idx)
    /\ UNCHANGED <<orderer, guard>>

\* A remove_all that removes only the first element of the equal-range.
remove_all_one(item) ==
    /\ Free
    /\ \E r \in get_index_range_of(orderer, storage, item) :
          IF r # <<>>
          THEN /\ storage' = VecRemove(storage, r[1].start)
               /\ last' = Ran("remove_all", item, NoItem, storage, <<>>, TRUE, r[1].start)
          ELSE /\ storage' = storage
               /\ last' = Ran("remove_all", item, NoItem, storage, <<>>, FALSE, 0)
    /\ UNCHANGED <<orderer, guard>>

\* OrdBySet::remove_all(item)
remove_all(item) ==
    /\ Free
    /\ \E r \in get_index_range_of(orderer, storage, item) :
          IF r # <<>>
          THEN /\ storage' = VecDrain(storage, r[1].start, r[1].end)
               /\ last' = Ran("remove_all", item, NoItem, storage, <<>>, TRUE, r[1].start)
          ELSE /\ storage' = storage
               /\ last' = Ran("remove_all", item, NoItem, storage, <<>>, FALSE, 0)
    /\ UNCHANGED <<orderer, guard>>

\* A remove_first that removes the last element of the equal-range.
remove_first_last(item) ==
    /\ Free
    /\ \E r \in get_index_range_of(orderer, storage, item) :
          IF r # <<>> /\ r[1].end > r[1].start
          THEN /\ storage' = VecRemove(storage, r[1].end - 1)
               /\ last' = Ran("remove_first", item, NoItem, storage,
                              <<storage[r[1].end]>>, TRUE, r[1].end - 1)
          ELSE /\ storage' = storage
               /\ last' = Ran("remove_first", item, NoItem, storage, <<>>, FALSE, 0)
    /\ UNCHANGED <<orderer, guard>>

\* OrdBySet::remove_first(item)
remove_first(item) ==
    /\ Free
    /\ \E r \in get_index_range_of(orderer, storage, item) :
          IF r # <<>> /\ r[1].end > r[1].start
          THEN /\ storage' = VecRemove(storage, r[1].start)
               /\ last' = Ran("remove_first", item, NoItem, storage,
                              <<storage[r[1].start + 1]>>, TRUE, r[1].start)
          ELSE /\ storage' = storage
               /\ last' = Ran("remove_first", item, NoItem, storage, <<>>, FALSE, 0)
    /\ UNCHANGED <<orderer, guard>>

\* A drain that returns the equal-range but leaves its last element stored.
drain_short(item) ==
    /\ Free
    /\ \E r \in get_index_range_of(orderer, storage, item) :
          IF r # <<>>
          THEN /\ storage' = VecDrain(storage, r[1].start, r[1].end - 1)
               /\ last' = Ran("drain", item, NoItem, storage,
                              Slice(storage, r[1].start, r[1].end), TRUE, r[1].start)
          ELSE /\ storage' = storage
               /\ last' = Ran("drain", item, NoItem, storage, <<>>, FALSE, 0)
    /\ UNCHANGED <<orderer, guard>>

\* OrdBySet::drain(item)
drain(item) ==
    /\ Free
    /\ \E r \in get_index_range_of(orderer, storage, item) :
          IF r # <<>>
          THEN /\ storage' = VecDrain(storage, r[1].start, r[1].end)
               /\ last' = Ran("drain", item, NoItem, storage,
                              Slice(storage, r[1].start, r[1].end), TRUE, r[1].start)
          ELSE /\ storage' = storage
               /\ last' = Ran("drain", item, NoItem, storage, <<>>, FALSE, 0)
    /\ UNCHANGED <<orderer, guard>>

\* The caller takes one element (the n-th left, 1-based) out of the Vec that
\* drain returned and gives it back with OrdBySet::insert.  The record keeps the
\* probe and the storage of before the drain, and the elements still to insert.
reinsert(n) ==
    /\ guard.kind = "none"
    /\ last.op \in {"drain", "reinsert"}
    /\ n \in 1..Len(last.ret)
    /\ \E r \in binary_search_by(CmpsOf(orderer, storage, last.ret[n])) :
          storage' = VecInsert(storage, r.idx, last.ret[n])
    /\ last' = Ran("reinsert", last.a, NoItem, last.pre,
                   VecRemove(last.ret, n - 1), TRUE, 0)
    /\ UNCHANGED <<orderer, guard>>

\* OrdBySet::retain(f): f is any FnMut(&T) -> bool, so it may keep any subset of
\* the positions; keep is the set of (0-based) indices where it returns true.
retain(keep) ==
    /\ Free
    /\ LET kept == {i \in 1..Len(storage) : (i - 1) \in keep}
           nth(n) == CHOOSE i \in kept : Cardinality({j \in kept : j < i}) = n - 1
       IN  storage' = [n \in 1..Cardinality(kept) |-> storage[nth(n)]]
    /\ last' = Ran("retain", NoItem, NoItem, storage, <<>>, FALSE, 0)
    /\ UNCHANGED <<orderer, guard>>

\* OrdBySet::clear
clear ==
    /\ Free
    /\ storage' = <<>>
    /\ last' = Ran("clear", NoItem, NoItem, storage, <<>>, FALSE, 0)
    /\ UNCHANGED <<orderer, guard>>

\* OrdBySet::remove_specific(val)
remove_specific(val) ==
    /\ Free
    /\ \E r \in get_index_range_of(orderer, storage, val) :
          LET index == IF r = <<>> THEN <<>> ELSE position_eq(storage, r[1], val)
          IN  IF index # <<>>
              THEN /\ storage' = VecRemove(storage, index[1])
                   /\ last' = Ran("remove_specific", val, NoItem, storage,
                                  <<storage[index[1] + 1]>>, TRUE, index[1])
              ELSE /\ storage' = storage
                   /\ last' = Ran("remove_specific", val, NoItem, storage, <<>>, FALSE, 0)
    /\ UNCHANGED <<orderer, guard>>

\* OrdBySet::get_specific(val): a reference to the first element of val's
\* equal-range that is == val, or None.
get_specific(val) ==
    /\ Free
    /\ \E r \in get_index_range_of(orderer, storage, val) :
          LET index == IF r = <<>> THEN <<>> ELSE position_eq(storage, r[1], val)
          IN  last' = IF index # <<>>
                      THEN Ran("get_specific", val, NoItem, storage,
                               <<storage[index[1] + 1]>>, TRUE, index[1])
                      ELSE Ran("get_specific", val, NoItem, storage, <<>>, FALSE, 0)
    /\ UNCHANGED <<storage, orderer, guard>>

\* OrdBySet::get(item): the slice of the equal-range, or None.
get(item) ==
    /\ Free
    /\ \E r \in get_index_range_of(orderer, storage, item) :
          last' = IF r # <<>>
                  THEN Ran("get", item, NoItem, storage,
                           Slice(storage, r[1].start, r[1].end), TRUE, r[1].start)
                  ELSE Ran("get", item, NoItem, storage, <<>>, FALSE, 0)
    /\ UNCHANGED <<storage, orderer, guard>>

\* OrdBySet::count(item): range.len(), or 0.
count(item) ==
    /\ Free
    /\ \E r \in get_index_range_of(orderer, storage, item) :
          last' = IF r # <<>>
                  THEN Ran("count", item, NoItem, storage, <<>>, TRUE,
                           r[1].end - r[1].start)
                  ELSE Ran("count", item, NoItem, storage, <<>>, FALSE, 0)
    /\ UNCHANGED <<storage, orderer, guard>>

\* OrdBySet::contains(item): whether the binary search finds a match.
contains(item) ==
    /\ Free
    /\ \E r \in binary_search_by(CmpsOf(orderer, storage, item)) :
          last' = Ran("contains", item, NoItem, storage, <<>>, r.ok, 0)
    /\ UNCHANGED <<storage, orderer, guard>>

\* A get_first that returns the front of the Vec, whatever the item.
get_first_front(item) ==
    /\ Free
    /\ last' = IF storage # <<>>
               THEN Ran("get_first", item, NoItem, storage, <<storage[1]>>, TRUE, 0)
               ELSE Ran("get_first", item, NoItem, storage, <<>>, FALSE, 0)
    /\ UNCHANGED <<storage, orderer, guard>>

\* OrdBySet::get_first(item): the element at the index the binary search
\* found, or None.
get_first(item) ==
    /\ Free
    /\ \E r \in binary_search_by(CmpsOf(orderer, storage, item)) :
          last' = IF r.ok /\ r.idx < Len(storage)
                  THEN Ran("get_first", item, NoItem, storage,
                           <<storage[r.idx + 1]>>, TRUE, r.idx)
                  ELSE Ran("get_first", item, NoItem, storage, <<>>, FALSE, 0)
    /\ UNCHANGED <<storage, orderer, guard>>

\* OrdBySet::range(low, high): the slice between the bounds, or None.
range(low, high) ==
    /\ Free
    /\ \E r \in range_to_index_range(orderer, storage, low, high) :
          last' = IF r # <<>>
                  THEN Ran("range", low, high, storage,
                           Slice(storage, r[1].start, r[1].end), TRUE, r[1].start)
                  ELSE Ran("range", low, high, storage, <<>>, FALSE, 0)
    /\ UNCHANGED <<storage, orderer, guard>>

\* OrdBySet::get_mut(item): Some(SliceGuard(self, range)), or None.
get_mut(item) ==
    /\ Free
    /\ \E r \in get_index_range_of(orderer, storage, item) :
          IF r # <<>>
          THEN /\ guard' = [kind |-> "SliceGuard", start |-> r[1].start, end |-> r[1].end]
               /\ last' = Ran("get_mut", item, NoItem, storage,
                              Slice(storage, r[1].start, r[1].end), TRUE, r[1].start)
          ELSE /\ guard' = guard
               /\ last' = Ran("get_mut", item, NoItem, storage, <<>>, FALSE, 0)
    /\ UNCHANGED <<storage, orderer>>

\* OrdBySet::range_mut(low, high): Some(SliceGuard(self, range)), or None.
range_mut(low, high) ==
    /\ Free
    /\ \E r \in range_to_index_range(orderer, storage, low, high) :
          IF r # <<>>
          THEN /\ guard' = [kind |-> "SliceGuard", start |-> r[1].start, end |-> r[1].end]
               /\ last' = Ran("range_mut", low, high, storage,
                              Slice(storage, r[1].start, r[1].end), TRUE, r[1].start)
          ELSE /\ guard' = guard
               /\ last' = Ran("range_mut", low, high, storage, <<>>, FALSE, 0)
    /\ UNCHANGED <<storage, orderer>>

\* SliceGuard::deref_mut, and a write through the &mut [T] it returns: the
\* caller may set any element of storage[range] to any value.
deref_mut(i, v) ==
    /\ guard.kind = "SliceGuard"
    /\ i \in guard.start..(guard.end - 1)
    /\ storage' = [storage EXCEPT ![i + 1] = v]
    /\ last' = Ran("deref_mut", NoItem, NoItem, <<>>, <<>>, FALSE, 0)
    /\ UNCHANGED <<orderer, guard>>

\* A drop that sorts only the window the guard covers.
drop_window_only ==
    /\ guard.kind = "SliceGuard"
    /\ storage' = Slice(storage, 0, guard.start)
                     \o sort_slice(orderer, Slice(storage, guard.start, guard.end))
                     \o Slice(storage, guard.end, Len(storage))
    /\ guard' = NoGuard
    /\ last' = Ran("drop", NoItem, NoItem, storage, <<>>, FALSE, 0)
    /\ UNCHANGED orderer

\* SliceGuard::drop: the whole storage is sorted again.
drop ==
    /\ guard.kind = "SliceGuard"
    /\ storage' = sort_slice(orderer, storage)
    /\ guard' = NoGuard
    /\ last' = Ran("drop", NoItem, NoItem, storage, <<>>, FALSE, 0)
    /\ UNCHANGED orderer

\* OrdBySet::get_first_mut(item): Some(&mut storage[index]) for the index the
\* binary search found, or None.  What is handed out is a bare &mut T.
get_first_mut(item) ==
    /\ Free
    /\ \E r \in binary_search_by(CmpsOf(orderer, storage, item)) :
          IF r.ok
          THEN /\ guard' = [kind |-> "&mut T", start |-> r.idx, end |-> r.idx + 1]
               /\ last' = Ran("get_first_mut", item, NoItem, storage,
                              <<storage[r.idx + 1]>>, TRUE, r.idx)
          ELSE /\ guard' = guard
               /\ last' = Ran("get_first_mut", item, NoItem, storage, <<>>, FALSE, 0)
    /\ UNCHANGED <<storage, orderer>>

\* OrdBySet::get_specific_mut(val): Some(&mut storage[index]) for the first
\* element of the equal-range exactly equal to val, or None.  A bare &mut T.
get_specific_mut(val) ==
    /\ Free
    /\ \E r \in get_index_range_of(orderer, storage, val) :
          LET index == IF r = <<>> THEN <<>> ELSE position_eq(storage, r[1], val)
          IN  IF index # <<>>
              THEN /\ guard' = [kind |-> "&mut T", start |-> index[1], end |-> index[1] + 1]
                   /\ last' = Ran("get_specific_mut", val, NoItem, storage,
                                  <<storage[index[1] + 1]>>, TRUE, index[1])
              ELSE /\ guard' = guard
                   /\ last' = Ran("get_specific_mut", val, NoItem, storage, <<>>, FALSE, 0)
    /\ UNCHANGED <<storage, orderer>>

\* A write through the &mut T of get_first_mut or get_specific_mut: the caller
\* may set that element to any value.
write_ref(v) ==
    /\ guard.kind = "&mut T"
    /\ storage' = [storage EXCEPT ![guard.start + 1] = v]
    /\ last' = Ran("write_ref", NoItem, NoItem, <<>>, <<>>, FALSE, 0)
    /\ UNCHANGED <<orderer, guard>>

\* The &mut T goes out of scope: the borrow ends and no code of the crate runs.
end_borrow ==
    /\ guard.kind = "&mut T"
    /\ guard' = NoGuard
    /\ last' = Ran("end_borrow", NoItem, NoItem, storage, <<>>, FALSE, 0)
    /\ UNCHANGED <<storage, orderer>>

\* The caller lets go of what the last call returned (a slice, an Option, a
\* bool); the set itself is untouched.
release ==
    /\ guard.kind = "none"
    /\ last # Idle
    /\ last' = Idle
    /\ UNCHANGED <<storage, orderer, guard>>

\* Every sequence of at most MaxLen values of T.
Items == UNION {[1..n -> T] : n \in 0..MaxLen}

\* One step: a call of a method while nothing borrows the set, a write through
\* a live SliceGuard or its drop, or the caller letting go of a result.
Next ==
    \/ Free /\ \E items \in Items : with_items(items)
    \/ Free /\ \E item \in T : insert(item)
    \/ Free /\ \E item \in T : remove_all(item)
    \/ Free /\ \E item \in T : remove_first(item)
    \/ Free /\ \E item \in T : drain(item)
    \/ Free /\ \E keep \in SUBSET (0..(MaxLen - 1)) : retain(keep)
    \/ Free /\ clear
    \/ Free /\ \E val \in T : remove_specific(val)
    \/ Free /\ \E val \in T : get_specific(val)
    \/ Free /\ \E item \in T : get(item)
    \/ Free /\ \E item \in T : count(item)
    \/ Free /\ \E item \in T : contains(item)
    \/ Free /\ \E item \in T : get_first(item)
    \/ Free /\ \E low, high \in T : range(low, high)
    \/ Free /\ \E item \in T : get_mut(item)
    \/ Free /\ \E low, high \in T : range_mut(low, high)
    \/ guard.kind = "SliceGuard" /\ \E i \in 0..(MaxLen - 1), v \in T : deref_mut(i, v)
    \/ guard.kind = "SliceGuard" /\ drop
    \/ release

Spec == Init /\ [][Next]_vars

\* The round trip of drain: a set built by with_items and insert, drained for a
\* probe, and given back every drained element, in any order.
NextRoundTrip ==
    \/ Free /\ \E items \in Items : with_items(items)
    \/ Free /\ \E item \in T : insert(item)
    \/ Free /\ \E item \in T : drain(item)
    \/ \E n \in 1..MaxLen : reinsert(n)
    \/ release

SpecRoundTrip == Init /\ [][NextRoundTrip]_vars

\* One turn of the loop that builds a set from a list of items, one insert per
\* item.  The record keeps the items inserted so far, in the order of the list.
ord_set(item) ==
    /\ guard.kind = "none"
    /\ last.op \in {"new_with_order", "ord_set"}
    /\ Len(storage) < MaxLen
    /\ \E r \in binary_search_by(CmpsOf(orderer, storage, item)) :
          /\ storage' = VecInsert(storage, r.idx, item)
          /\ last' = Ran("ord_set", item, NoItem, <<>>, Append(last.ret, item), r.ok, r.idx)
    /\ UNCHANGED <<orderer, guard>>

\* From<Vec<T>>::from(storage): the Vec sorted by the default orderer.
from(o, items) == sort_by(o, items)

\* A set built item by item, and sets built in bulk by with_items.
NextBuild ==
    \/ \E item \in T : ord_set(item)
    \/ Free /\ \E items \in Items : with_items(items)
    \/ release

SpecBuild == Init /\ [][NextBuild]_vars

\* The steps of Next, and those of the two methods that hand out a bare &mut T.
NextAll ==
    \/ Next
    \/ Free /\ \E item \in T : get_first_mut(item)
    \/ Free /\ \E val \in T : get_specific_mut(val)
    \/ guard.kind = "&mut T" /\ \E v \in T : write_ref(v)
    \/ guard.kind = "&mut T" /\ end_borrow

SpecAll == Init /\ [][NextAll]_vars


(***************************************************************************)
(* The properties.                                                         *)
(***************************************************************************)

\* The (1-based) positions of s whose element the orderer considers Equal to item.
EqualTo(o, s, item) == {i \in 1..Len(s) : order_of(o, s[i], item) = "Equal"}

\* The elements of s the orderer considers Equal to item, in the order of s.
EqualsOf(o, s, item) == SelectSeq(s, LAMBDA e : order_of(o, e, item) = "Equal")

\* The elements of s the orderer does not consider Equal to item, in the order of s.
OthersOf(o, s, item) == SelectSeq(s, LAMBDA e : order_of(o, e, item) # "Equal")

\* C1: with a valid strict weak order, whenever no mutation guard is live (after
\* with_items, insert, remove_all, remove_first, remove_specific, drain, retain,
\* clear, and after a get_mut or range_mut guard has been dropped) the storage
\* is sorted: no element is Greater than a later one.
C1_StorageSorted == guard.kind = "none" => IsSorted(orderer, storage)

\* C1's case: an insert landed strictly inside a storage holding smaller and
\* larger elements, under the weak orderer.
C1_Witness ==
    /\ last.op = "insert"
    /\ orderer = "ByKey"
    /\ Len(storage) = 3
    /\ last.idx = 1
    /\ storage[1].k < storage[2].k
    /\ storage[2].k < storage[3].k

\* C2: on a sorted storage the equal-range get and count use for a probe is
\* exactly the set of positions holding an element Equal to the probe, which is
\* contiguous: get returns exactly those elements, from the first such position
\* on, count returns their number, and the result is None (count 0) exactly
\* when there is no such element.
C2_EqualRange ==
    (last.op \in {"get", "count"} /\ IsSorted(orderer, last.pre)) =>
        LET E == EqualTo(orderer, last.pre, last.a)
        IN  /\ \A i, j \in E : \A m \in i..j : m \in E
            /\ last.found = (E # {})
            /\ last.op = "count" => last.idx = Cardinality(E)
            /\ last.op = "get" =>
                  /\ last.ret = EqualsOf(orderer, last.pre, last.a)
                  /\ last.found =>
                        /\ \A i \in E : last.idx < i
                        /\ last.ret = Slice(last.pre, last.idx, last.idx + Cardinality(E))

\* C2's case: count found two distinct values of one equal-range, in a storage
\* that also holds a value not Equal to the probe.
C2_Witness ==
    /\ last.op = "count"
    /\ last.idx = 2
    /\ Len(last.pre) = 3
    /\ \E i \in 1..2 : /\ order_of(orderer, last.pre[i], last.pre[i + 1]) = "Equal"
                       /\ last.pre[i] # last.pre[i + 1]


\* C3: every mutable view (get_mut, range_mut, get_first_mut, get_specific_mut)
\* is handed out through a guard whose release re-establishes the invariant:
\* whatever was written through the view, once it is released the storage is
\* sorted.
C3_ReleaseRestoresOrder ==
    last.op \in {"drop", "end_borrow"} => IsSorted(orderer, storage)

\* C4: when a get_mut or range_mut guard is dropped after arbitrary writes to
\* its window, the storage is sorted, holds exactly the values it held just
\* before the drop, and every one of them lies in the equal-range get and count
\* find for it.
C4_GuardResort ==
    last.op = "drop" =>
        /\ IsSorted(orderer, storage)
        /\ SameMultiset(storage, last.pre)
        /\ \A i \in 1..Len(last.pre) :
              \A r \in get_index_range_of(orderer, storage, last.pre[i]) :
                  /\ r # <<>>
                  /\ \E j \in (r[1].start + 1)..r[1].end : storage[j] = last.pre[i]

\* C4's case: a write through the guard moved a value out of its equal-range,
\* past values outside the guard's window, and the drop moved it back in order.
C4_Witness ==
    /\ last.op = "drop"
    /\ Len(storage) = 3
    /\ ~IsSorted(orderer, last.pre)
    /\ order_of(orderer, last.pre[1], last.pre[3]) = "Greater"
    /\ order_of(orderer, last.pre[2], last.pre[3]) = "Less"
    /\ storage # last.pre


\* e lies between low and high, both ends included.
Between(o, e, low, high) ==
    order_of(o, e, low) # "Less" /\ order_of(o, e, high) # "Greater"

\* The number of elements a range or equal-range lookup found.
RangeLen(r) == IF r = <<>> THEN 0 ELSE r[1].end - r[1].start

\* C5: on a sorted storage and for low strictly less than high, range returns
\* exactly the stored elements e with low <= e <= high, in storage order and as
\* one contiguous slice, and None exactly when there is no such element.
C5_RangeInclusive ==
    (/\ last.op = "range"
     /\ IsSorted(orderer, last.pre)
     /\ order_of(orderer, last.a, last.b) = "Less") =>
        /\ last.ret = SelectSeq(last.pre, LAMBDA e : Between(orderer, e, last.a, last.b))
        /\ last.found = (\E i \in 1..Len(last.pre) :
                            Between(orderer, last.pre[i], last.a, last.b))
        /\ last.found => last.ret = Slice(last.pre, last.idx, last.idx + Len(last.ret))

\* C5's case: range returned two elements, one Equal to an end of the interval,
\* and left out a smaller element stored before them.
C5_Witness ==
    /\ last.op = "range"
    /\ last.found
    /\ Len(last.pre) = 3
    /\ last.idx = 1
    /\ Len(last.ret) = 2
    /\ order_of(orderer, last.ret[2], last.b) = "Equal"

\* C6: range and range_mut return None whenever low is not strictly less than
\* high (inverted or order-equal bounds), whatever the storage holds; no guard
\* is created and the storage is unchanged.
C6_RangeRejectsBounds ==
    (/\ last.op \in {"range", "range_mut"}
     /\ order_of(orderer, last.a, last.b) # "Less") =>
        /\ ~last.found
        /\ last.ret = <<>>
        /\ guard.kind = "none"
        /\ storage = last.pre

\* C6's case: range_mut with order-equal bounds on a storage that holds
\* elements Equal to them.
C6_Witness ==
    /\ last.op = "range_mut"
    /\ order_of(orderer, last.a, last.b) = "Equal"
    /\ Cardinality(EqualTo(orderer, last.pre, last.a)) = 2
    /\ Len(last.pre) = 3
    /\ ~last.found

\* C7: on a sorted storage remove_all(item) deletes exactly the elements Equal
\* to item: the others stay in their order, count(item) is 0 afterwards, len
\* drops by the old count, and it returns true exactly when the old count was
\* positive (false leaves the storage unchanged).
C7_RemoveAll ==
    (last.op = "remove_all" /\ IsSorted(orderer, last.pre)) =>
        /\ storage = OthersOf(orderer, last.pre, last.a)
        /\ \A r \in get_index_range_of(orderer, storage, last.a) : RangeLen(r) = 0
        /\ Len(storage) = Len(last.pre) - Cardinality(EqualTo(orderer, last.pre, last.a))
        /\ last.found = (Cardinality(EqualTo(orderer, last.pre, last.a)) > 0)
        /\ ~last.found => storage = last.pre

\* C7's case: remove_all removed two distinct values of one equal-range and
\* left the third element.
C7_Witness ==
    /\ last.op = "remove_all"
    /\ last.found
    /\ Len(last.pre) = 3
    /\ Len(storage) = 1
    /\ \E i \in 1..2 : /\ order_of(orderer, last.pre[i], last.a) = "Equal"
                       /\ order_of(orderer, last.pre[i + 1], last.a) = "Equal"
                       /\ last.pre[i] # last.pre[i + 1]

\* C8: on a sorted storage remove_first(item) removes exactly the element at
\* the lowest index of item's equal-range and returns it; the others keep their
\* order and count(item) drops by one.  With no element Equal to item it
\* returns None and the storage is unchanged.
C8_RemoveFirst ==
    (last.op = "remove_first" /\ IsSorted(orderer, last.pre)) =>
        LET E == EqualTo(orderer, last.pre, last.a)
            first == CHOOSE i \in E : \A j \in E : i <= j
        IN  IF E # {}
            THEN /\ last.found
                 /\ last.ret = <<last.pre[first]>>
                 /\ storage = VecRemove(last.pre, first - 1)
                 /\ \A r \in get_index_range_of(orderer, storage, last.a) :
                        RangeLen(r) = Cardinality(E) - 1
            ELSE /\ ~last.found
                 /\ last.ret = <<>>
                 /\ storage = last.pre

\* C8's case: remove_first took the first of two distinct values of an
\* equal-range that does not start the storage.
C8_Witness ==
    /\ last.op = "remove_first"
    /\ last.found
    /\ Len(last.pre) = 3
    /\ last.idx = 1
    /\ order_of(orderer, last.pre[3], last.a) = "Equal"
    /\ last.pre[2] # last.pre[3]

\* C9: on a sorted storage drain(item) returns exactly the elements of item's
\* equal-range, in their storage order, and removes exactly those: count(item)
\* is 0 afterwards and the others keep their order.  With no element Equal to
\* item it returns an empty Vec and leaves the storage unchanged.
C9_Drain ==
    (last.op = "drain" /\ IsSorted(orderer, last.pre)) =>
        /\ last.ret = EqualsOf(orderer, last.pre, last.a)
        /\ storage = OthersOf(orderer, last.pre, last.a)
        /\ \A r \in get_index_range_of(orderer, storage, last.a) : RangeLen(r) = 0
        /\ last.ret = <<>> => storage = last.pre

\* C9's case: drain returned two distinct values of one equal-range, in their
\* storage order, and left the element stored before them.
C9_Witness ==
    /\ last.op = "drain"
    /\ Len(last.pre) = 3
    /\ Len(last.ret) = 2
    /\ last.ret[1] # last.ret[2]
    /\ storage = <<last.pre[1]>>

\* C10: drain(x) followed by the insert of every returned element, in any
\* order, gives back a sorted storage with the same multiset of values, the
\* same len and the same count(x) as before the drain.
C10_DrainRoundTrip ==
    (/\ last.op \in {"drain", "reinsert"}
     /\ last.ret = <<>>
     /\ IsSorted(orderer, last.pre)) =>
        /\ SameMultiset(storage, last.pre)
        /\ Len(storage) = Len(last.pre)
        /\ \A r \in get_index_range_of(orderer, storage, last.a) :
               RangeLen(r) = Cardinality(EqualTo(orderer, last.pre, last.a))
        /\ IsSorted(orderer, storage)

\* C10's case: two distinct drained values were inserted again, next to an
\* element that was never drained, and came back in the other order.
C10_Witness ==
    /\ last.op = "reinsert"
    /\ last.ret = <<>>
    /\ Len(last.pre) = 3
    /\ Cardinality(EqualTo(orderer, last.pre, last.a)) = 2
    /\ storage # last.pre

\* The indices (from 1) of the elements of s that are exactly equal to val.
ExactlyOf(s, val) == {i \in 1..Len(s) : s[i] = val}

\* C11: the three orderers all put exactly equal values in one Equal class.
\* On a sorted storage get_specific(val) and remove_specific(val) return None
\* exactly when no stored element is == val, and otherwise return the element
\* == val of the lowest index, never an element that is only order-equal;
\* get_specific leaves the storage alone and remove_specific removes exactly
\* that element.
C11_Specific ==
    (/\ last.op \in {"get_specific", "remove_specific"}
     /\ IsSorted(orderer, last.pre)) =>
        LET X == ExactlyOf(last.pre, last.a)
        IN  IF X = {}
            THEN /\ ~last.found
                 /\ last.ret = <<>>
                 /\ storage = last.pre
            ELSE LET first == CHOOSE i \in X : \A j \in X : i <= j
                 IN  /\ last.found
                     /\ last.ret = <<last.a>>
                     /\ last.idx = first - 1
                     /\ first \in EqualTo(orderer, last.pre, last.a)
                     /\ storage = IF last.op = "get_specific"
                                  THEN last.pre
                                  ELSE VecRemove(last.pre, first - 1)

\* C11's case: val is stored behind an element that is order-equal to it but
\* not ==, and remove_specific took val out and left the neighbour in.
C11_Witness ==
    /\ last.op = "remove_specific"
    /\ last.found
    /\ last.idx = 1
    /\ Len(last.pre) = 3
    /\ order_of(orderer, last.pre[1], last.a) = "Equal"
    /\ last.pre[1] # last.a
    /\ storage = <<last.pre[1], last.pre[3]>>

\* Every arrangement of the elements of s.
Arrangements(s) ==
    {[i \in 1..Len(s) |-> s[f[i]]] : f \in Permutations(1..Len(s))}

\* C12: under the natural total order (FullOrd), a set built by inserting the
\* items of a list one at a time has the same storage, and the same equal-range
\* and count for every probe, as the set with_items or From<Vec> builds from
\* the same items in any arrangement.
C12_OrderIndependent ==
    (last.op = "ord_set" /\ orderer = "FullOrd") =>
        \A items \in Arrangements(last.ret) :
            LET bulk == sort_slice(orderer, items)
            IN  /\ storage = bulk
                /\ storage = from(orderer, items)
                /\ \A probe \in T :
                       get_index_range_of(orderer, storage, probe)
                           = get_index_range_of(orderer, bulk, probe)

\* C12's case: three items, two of them equal, inserted in an order that is
\* not the sorted one.
C12_Witness ==
    /\ last.op = "ord_set"
    /\ orderer = "FullOrd"
    /\ Len(last.ret) = 3
    /\ last.ret[1] = last.ret[3]
    /\ order_of(orderer, last.ret[2], last.ret[1]) = "Less"
    /\ storage = <<last.ret[2], last.ret[1], last.ret[3]>>

\* The number of elements of s that are Less than item: on a sorted s, the
\* first index whose element is not Less than item.
FirstNotLess(o, s, item) ==
    Cardinality({i \in 1..Len(s) : order_of(o, s[i], item) = "Less"})

\* C13, as stated: insert(item) on a sorted storage places item at the first
\* index whose element is not Less than item, before every stored element that
\* is order-equal to it; the other elements keep their relative order and len
\* grows by one.
C13_InsertFirst ==
    (last.op = "insert" /\ IsSorted(orderer, last.pre)) =>
        /\ last.idx = FirstNotLess(orderer, last.pre, last.a)
        /\ storage = VecInsert(last.pre, last.idx, last.a)
        /\ VecRemove(storage, last.idx) = last.pre
        /\ Len(storage) = Len(last.pre) + 1

\* C13, amended: insert(item) on a sorted storage places item at the first
\* index whose element is not Less than item when no stored element is
\* order-equal to it, and otherwise at the index of some order-equal element,
\* so that it precedes at least one of them but not always all; the other
\* elements keep their relative order, len grows by one and the storage stays
\* sorted.
C13_InsertAmongEquals ==
    (last.op = "insert" /\ IsSorted(orderer, last.pre)) =>
        LET E == EqualTo(orderer, last.pre, last.a)
        IN  /\ IF E = {}
               THEN ~last.found /\ last.idx = FirstNotLess(orderer, last.pre, last.a)
               ELSE last.found /\ (last.idx + 1) \in E
            /\ storage = VecInsert(last.pre, last.idx, last.a)
            /\ VecRemove(storage, last.idx) = last.pre
            /\ Len(storage) = Len(last.pre) + 1
            /\ IsSorted(orderer, storage)

\* C13's case: two order-equal elements are stored and the inserted item lands
\* between them, behind the first.
C13_Witness ==
    /\ last.op = "insert"
    /\ IsSorted(orderer, last.pre)
    /\ Len(last.pre) = 2
    /\ EqualTo(orderer, last.pre, last.a) = {1, 2}
    /\ last.idx = 1
    /\ storage = <<last.pre[1], last.a, last.pre[2]>>

\* C14: on a sorted storage and for every probe, contains and get_first, which
\* binary-search, agree with count and get, which take partition points:
\* contains is true, and get_first is Some, exactly when count > 0 and get is
\* Some; the element get_first returns lies in the probe's equal-range and is
\* order-Equal to the probe.
C14_QueriesAgree ==
    (/\ last.op \in {"contains", "get_first"}
     /\ IsSorted(orderer, last.pre)) =>
        \A r \in get_index_range_of(orderer, last.pre, last.a) :
            /\ last.found = (RangeLen(r) > 0)
            /\ last.found = (r # <<>>)
            /\ last.op = "get_first" =>
                   /\ last.found = (last.ret # <<>>)
                   /\ last.found =>
                          /\ last.idx \in r[1].start..(r[1].end - 1)
                          /\ last.ret[1] = last.pre[last.idx + 1]
                          /\ order_of(orderer, last.ret[1], last.a) = "Equal"

\* C14's case: get_first returned an element of the equal-range that is not at
\* its first position and differs from the one that is.
C14_Witness ==
    /\ last.op = "get_first"
    /\ IsSorted(orderer, last.pre)
    /\ Len(last.pre) = 3
    /\ EqualTo(orderer, last.pre, last.a) = {2, 3}
    /\ last.idx = 2
    /\ last.ret = <<last.pre[3]>>
    /\ last.pre[3] # last.pre[2]

====
